---- MODULE Spec2Model ----
(***************************************************************************)
(* Verification model of the limit-order endpoint of bagalytics:           *)
(* GET /api/orders/[token] (account scan, decode, dedup, snapshot cache,   *)
(* decimal resolution, classification, bucketing, cumulative pass).        *)
(***************************************************************************)
EXTENDS Integers, Sequences, FiniteSets, TLC

VARIABLES
    chain,        \* on-chain accounts of the limit order program: key -> account
    rpcUrl,       \* process.env.SOLANA_RPC_URL is set
    now,          \* clock, in ticks of TickMs milliseconds
    ordersCache,  \* the module-level snapshot slot
    req,          \* per request: position and locals of GET / processOrders
    hpc,          \* function harness: "ready" before the call, "done" after it
    hin,          \* function harness: the arguments of the call
    hout,         \* function harness: the outcome of the call
    redis,        \* the Redis store: key -> entry
    redisTime,    \* the clock of the Redis server, in seconds
    calls,        \* per call of getCached: position and locals
    page,         \* the dashboard page: state of Home
    fetches       \* the orders requests of the page still in flight

vars == <<chain, rpcUrl, now, ordersCache, req, hpc, hin, hout,
          redis, redisTime, calls, page, fetches>>

\* the Redis helper and the dashboard page take no part
ServicesOff ==
    /\ redis = <<>>
    /\ redisTime = 0
    /\ calls = <<>>
    /\ page = <<>>
    /\ fetches = <<>>

(***************************************************************************)
(* Bounds of the model.                                                    *)
(***************************************************************************)
MaxTicks == 2
MaxAmount == 1
MaxExtraBytes == 1
MaxRedisTicks == 2
MaxFetches == 3

(***************************************************************************)
(* Program constants.                                                      *)
(***************************************************************************)
INPUT_MINT_OFFSET == 40
OUTPUT_MINT_OFFSET == 72
MAKING_AMOUNT_OFFSET == 224
TAKING_AMOUNT_OFFSET == 232
PUBLIC_KEY_LENGTH == 32
U64_LENGTH == 8
DEFAULT_SPL_TOKEN_DECIMALS == 9
CACHE_TTL == 60000

(***************************************************************************)
(* JavaScript numbers.  A finite number is the exact value                 *)
(* (n / d) * 10^e, kept in canonical form (d > 0 coprime to 10 and to n,   *)
(* n not a multiple of 10, zero as 0/1 * 10^0); NaN and the two            *)
(* infinities are separate kinds.  Rounding of IEEE doubles is not         *)
(* represented: every arithmetic result is exact.                          *)
(***************************************************************************)
Abs(x) == IF x < 0 THEN -x ELSE x

Sgn(x) == IF x < 0 THEN -1 ELSE IF x = 0 THEN 0 ELSE 1

Min(a, b) == IF a <= b THEN a ELSE b

RECURSIVE GCD(_, _)
GCD(a, b) == IF b = 0 THEN a ELSE GCD(b, a % b)

RECURSIVE IntPow10(_)
IntPow10(k) == IF k = 0 THEN 1 ELSE 10 * IntPow10(k - 1)

NaN == [k |-> "nan", n |-> 0, d |-> 1, e |-> 0]

PosInf == [k |-> "inf", n |-> 1, d |-> 1, e |-> 0]

NegInf == [k |-> "inf", n |-> -1, d |-> 1, e |-> 0]

RECURSIVE Canon(_, _, _)
Canon(n, d, e) ==
    IF n = 0 THEN [k |-> "fin", n |-> 0, d |-> 1, e |-> 0]
    ELSE IF d % 2 = 0 THEN Canon(n * 5, d \div 2, e - 1)
    ELSE IF d % 5 = 0 THEN Canon(n * 2, d \div 5, e - 1)
    ELSE IF n % 10 = 0 THEN Canon(n \div 10, d, e + 1)
    ELSE LET g == GCD(Abs(n), d)
         IN  [k |-> "fin", n |-> n \div g, d |-> d \div g, e |-> e]

NumInt(i) == Canon(i, 1, 0)

IsNaN(a) == a.k = "nan"

IsFinite(a) == a.k = "fin"

NumSign(a) == Sgn(a.n)

NumNeg(a) == IF IsNaN(a) THEN NaN ELSE [a EXCEPT !.n = -a.n]

\* a / b; IEEE: x/0 is an infinity, 0/0 is NaN, nothing throws
NumDiv(a, b) ==
    IF IsNaN(a) \/ IsNaN(b) THEN NaN
    ELSE IF ~IsFinite(a)
         THEN IF ~IsFinite(b) THEN NaN
              ELSE IF a.n * (IF b.n < 0 THEN -1 ELSE 1) > 0 THEN PosInf ELSE NegInf
    ELSE IF ~IsFinite(b) THEN NumInt(0)
    ELSE IF b.n = 0
         THEN IF a.n = 0 THEN NaN ELSE IF a.n > 0 THEN PosInf ELSE NegInf
    ELSE Canon(a.n * b.d * Sgn(b.n), a.d * Abs(b.n), a.e - b.e)

\* a * b; IEEE: infinity * 0 is NaN
NumMul(a, b) ==
    IF IsNaN(a) \/ IsNaN(b) THEN NaN
    ELSE IF ~IsFinite(a) \/ ~IsFinite(b)
         THEN IF a.n = 0 \/ b.n = 0 THEN NaN
              ELSE IF Sgn(a.n) * Sgn(b.n) > 0 THEN PosInf ELSE NegInf
    ELSE Canon(a.n * b.n, a.d * b.d, a.e + b.e)

\* a + b; IEEE: infinity + (-infinity) is NaN
NumAdd(a, b) ==
    IF IsNaN(a) \/ IsNaN(b) THEN NaN
    ELSE IF ~IsFinite(a)
         THEN IF ~IsFinite(b) /\ a.n # b.n THEN NaN ELSE a
    ELSE IF ~IsFinite(b) THEN b
    ELSE IF a.n = 0 THEN b
    ELSE IF b.n = 0 THEN a
    ELSE LET e == Min(a.e, b.e)
         IN  Canon(a.n * IntPow10(a.e - e) * b.d + b.n * IntPow10(b.e - e) * a.d,
                   a.d * b.d, e)

NumSub(a, b) == NumAdd(a, NumNeg(b))

\* a < b and a <= b; every comparison with NaN is false
NumLt(a, b) ==
    /\ ~IsNaN(a)
    /\ ~IsNaN(b)
    /\ a # b
    /\ NumSign(NumSub(a, b)) < 0

NumLeq(a, b) == ~IsNaN(a) /\ ~IsNaN(b) /\ (a = b \/ NumLt(a, b))

\* Math.floor
NumFloor(a) ==
    IF ~IsFinite(a) THEN a
    ELSE IF a.e >= 0 THEN NumInt((a.n * IntPow10(a.e)) \div a.d)
    ELSE IF -a.e > 9 THEN NumInt(IF a.n < 0 THEN -1 ELSE 0)
    ELSE NumInt((a.n \div a.d) \div IntPow10(-a.e))

\* Math.pow(10, k) for an integer k >= 0
Pow10(k) == Canon(1, 1, k)

(***************************************************************************)
(* Byte buffers: sequences of bytes; offsets are 0-based as in the code.   *)
(***************************************************************************)
\* Buffer.subarray(start, end): clamped to the buffer, never throws
Subarray(data, start, end) == SubSeq(data, start + 1, Min(end, Len(data)))

\* new BN(bytes): big-endian magnitude of the bytes given (none: 0)
RECURSIVE BNFromBE(_)
BNFromBE(bytes) ==
    IF bytes = <<>> THEN 0
    ELSE BNFromBE(SubSeq(bytes, 1, Len(bytes) - 1)) * 256 + bytes[Len(bytes)]

\* new BN(bytes, 'le'): little-endian magnitude of the bytes given (none: 0)
RECURSIVE BNFromLE(_)
BNFromLE(bytes) ==
    IF bytes = <<>> THEN 0 ELSE bytes[1] + 256 * BNFromLE(Tail(bytes))

\* new PublicKey(bytes).toBase58(): any buffer of at most 32 bytes is taken
\* as the low-order bytes of the key; the key is named by its value
PublicKeyOfBytes(bytes) == BNFromBE(bytes)

\* the 32 bytes of the key named m
KeyBytes(m) == [j \in 1..PUBLIC_KEY_LENGTH |-> IF j = PUBLIC_KEY_LENGTH THEN m ELSE 0]

\* the 8 bytes of a u64 amount, little-endian
U64Bytes(v) == [j \in 1..U64_LENGTH |-> IF j = 1 THEN v % 256 ELSE 0]

(***************************************************************************)
(* Order decoder.                                                          *)
(***************************************************************************)
\* The outcome of a call is a record: ok says that the call returned (its
\* value is in order), ~ok that it threw; errorKey is the account the call
\* was made for.  No statement of parseOrderAccount throws: subarray clamps,
\* and PublicKey and BN accept any buffer of at most 32 bytes.
parseOrderAccount(publicKey, data) ==
    [ok |-> TRUE, errorKey |-> publicKey,
     order |->
       [publicKey |-> publicKey,
        inputMint |-> PublicKeyOfBytes(
            Subarray(data, INPUT_MINT_OFFSET, INPUT_MINT_OFFSET + PUBLIC_KEY_LENGTH)),
        outputMint |-> PublicKeyOfBytes(
            Subarray(data, OUTPUT_MINT_OFFSET, OUTPUT_MINT_OFFSET + PUBLIC_KEY_LENGTH)),
        makingAmount |-> BNFromLE(
            Subarray(data, MAKING_AMOUNT_OFFSET, MAKING_AMOUNT_OFFSET + U64_LENGTH)),
        takingAmount |-> BNFromLE(
            Subarray(data, TAKING_AMOUNT_OFFSET, TAKING_AMOUNT_OFFSET + U64_LENGTH))]]

(***************************************************************************)
(* The chain: accounts owned by the limit order program.  An account is    *)
(* given by the fields the program wrote and by the length of its data; a  *)
(* length of 0 stands for "no such account".  Its data is the V2 layout    *)
(* (mints at 40 and 72, amounts at 224 and 232), cut at that length.       *)
(***************************************************************************)
Mints == {1, 2}

\* the keys of the accounts the handler's scans may return
Keys == {1, 2}

FullLen == TAKING_AMOUNT_OFFSET + U64_LENGTH

InField(off, start, size) == start <= off /\ off < start + size

ByteOf(acct, off) ==
    IF InField(off, INPUT_MINT_OFFSET, PUBLIC_KEY_LENGTH)
    THEN KeyBytes(acct.inputMint)[off - INPUT_MINT_OFFSET + 1]
    ELSE IF InField(off, OUTPUT_MINT_OFFSET, PUBLIC_KEY_LENGTH)
    THEN KeyBytes(acct.outputMint)[off - OUTPUT_MINT_OFFSET + 1]
    ELSE IF InField(off, MAKING_AMOUNT_OFFSET, U64_LENGTH)
    THEN U64Bytes(acct.makingAmount)[off - MAKING_AMOUNT_OFFSET + 1]
    ELSE IF InField(off, TAKING_AMOUNT_OFFSET, U64_LENGTH)
    THEN U64Bytes(acct.takingAmount)[off - TAKING_AMOUNT_OFFSET + 1]
    ELSE 0

AccountData(acct) == [i \in 1..acct.len |-> ByteOf(acct, i - 1)]

NoAccount ==
    [inputMint |-> 0, outputMint |-> 0, makingAmount |-> 0, takingAmount |-> 0, len |-> 0]

(***************************************************************************)
(* Request parameters.  The token is the path parameter, given here by the *)
(* bytes its base58 text decodes to; the price is the query parameter, a   *)
(* text that may be absent.                                                *)
(***************************************************************************)
\* new PublicKey(text): throws unless the text decodes to exactly 32 bytes
IsValidPublicKey(tokenBytes) == Len(tokenBytes) = PUBLIC_KEY_LENGTH

DigitOf(c) ==
    CASE c = "0" -> 0 [] c = "1" -> 1 [] c = "2" -> 2 [] c = "3" -> 3
      [] c = "4" -> 4 [] c = "5" -> 5 [] c = "6" -> 6 [] c = "7" -> 7
      [] c = "8" -> 8 [] c = "9" -> 9 [] OTHER -> -1

\* the longest prefix of digits of text, as [value, count]
RECURSIVE LeadingDigits(_, _, _)
LeadingDigits(text, value, count) ==
    IF text = <<>> \/ DigitOf(Head(text)) < 0
    THEN [value |-> value, count |-> count]
    ELSE LeadingDigits(Tail(text), 10 * value + DigitOf(Head(text)), count + 1)

\* the text parseFloat reads as an infinity
InfinityText == <<"I", "n", "f", "i", "n", "i", "t", "y">>

\* parseFloat on texts of signs, digits and other characters: an optional
\* sign, then "Infinity" or the longest run of digits; NaN when there is
\* neither
parseFloat(text) ==
    LET neg  == text # <<>> /\ Head(text) = "-"
        body == IF text # <<>> /\ Head(text) \in {"-", "+"} THEN Tail(text) ELSE text
        ds   == LeadingDigits(body, 0, 0)
    IN  IF Len(body) >= Len(InfinityText) /\ SubSeq(body, 1, Len(InfinityText)) = InfinityText
        THEN IF neg THEN NegInf ELSE PosInf
        ELSE IF ds.count = 0 THEN NaN
        ELSE NumInt(IF neg THEN -ds.value ELSE ds.value)

\* url.searchParams.get('price') || '0'
PriceText(priceParam) ==
    IF ~priceParam.present \/ priceParam.text = <<>> THEN <<"0">> ELSE priceParam.text

\* !x for a number x: true of 0 and of NaN
Falsy(x) == IsNaN(x) \/ (IsFinite(x) /\ x.n = 0)

(***************************************************************************)
(* Price normaliser and classifier, bucketer, cumulative pass.             *)
(***************************************************************************)
PRICE_BUCKET_PERCENTAGE == Canon(5, 1, -2)

BAGS_CREATOR_FEE_RATE == Canon(1, 1, -2)

\* Classify with the two tests in the other order
ClassifyBuyFirst(inputMint, outputMint, targetTokenMint) ==
    IF outputMint = targetTokenMint THEN "buy"
    ELSE IF inputMint = targetTokenMint THEN "sell"
    ELSE "none"

\* Classify with a plain else: what is no sell is a buy
ClassifyElseBuy(inputMint, outputMint, targetTokenMint) ==
    IF inputMint = targetTokenMint THEN "sell" ELSE "buy"

\* the branch of processOrders an order takes
Classify(inputMint, outputMint, targetTokenMint) ==
    IF inputMint = targetTokenMint THEN "sell"
    ELSE IF outputMint = targetTokenMint THEN "buy"
    ELSE "none"

\* decimalsCache.set(mint, decimals)
MapSet(map, key, value) == [x \in DOMAIN map \cup {key} |-> IF x = key THEN value ELSE map[x]]

\* the {price, volumeUsd} pushed for an order whose two mints are resolved
NormalizedOrder(order, side, dec, currentPriceUsd) ==
    LET makingAmountNormalized ==
            NumDiv(NumInt(order.makingAmount), Pow10(dec[order.inputMint]))
        takingAmountNormalized ==
            NumDiv(NumInt(order.takingAmount), Pow10(dec[order.outputMint]))
    IN  IF side = "sell"
        THEN [price |-> NumDiv(takingAmountNormalized, makingAmountNormalized),
              volumeUsd |-> NumMul(makingAmountNormalized, currentPriceUsd)]
        ELSE [price |-> NumDiv(makingAmountNormalized, takingAmountNormalized),
              volumeUsd |-> NumMul(takingAmountNormalized, currentPriceUsd)]

BucketIndex(order, currentPrice) ==
    LET priceRatio == NumDiv(order.price, currentPrice)
    IN  NumMul(NumFloor(NumDiv(priceRatio, PRICE_BUCKET_PERCENTAGE)),
               PRICE_BUCKET_PERCENTAGE)

\* position of key in the bucket map (a sequence in insertion order), or 0
RECURSIVE MapFind(_, _, _)
MapFind(bucketMap, key, i) ==
    IF i > Len(bucketMap) THEN 0
    ELSE IF bucketMap[i].key = key THEN i
    ELSE MapFind(bucketMap, key, i + 1)

\* NewBucket with the first order counted at creation already
NewBucketCounted(currentPrice, bucketIndex, side) ==
    [priceLevel |-> NumMul(currentPrice, bucketIndex), side |-> side, orderCount |-> 1,
     totalVolumeUsd |-> NumInt(0), feePotentialUsd |-> NumInt(0),
     cumulativeFeesIfSweep |-> NumInt(0)]

NewBucket(currentPrice, bucketIndex, side) ==
    [priceLevel |-> NumMul(currentPrice, bucketIndex), side |-> side, orderCount |-> 0,
     totalVolumeUsd |-> NumInt(0), feePotentialUsd |-> NumInt(0),
     cumulativeFeesIfSweep |-> NumInt(0)]

\* Accumulate with the fee summed up step by step instead of recomputed
AccumulateFeeSummed(bucket, order) ==
    LET total == NumAdd(bucket.totalVolumeUsd, order.volumeUsd)
    IN  [bucket EXCEPT !.orderCount = @ + 1,
                       !.totalVolumeUsd = total,
                       !.feePotentialUsd =
                           NumAdd(@, NumMul(total, BAGS_CREATOR_FEE_RATE))]

Accumulate(bucket, order) ==
    LET total == NumAdd(bucket.totalVolumeUsd, order.volumeUsd)
    IN  [bucket EXCEPT !.orderCount = @ + 1,
                       !.totalVolumeUsd = total,
                       !.feePotentialUsd = NumMul(total, BAGS_CREATOR_FEE_RATE)]

\* the for loop of bucketByPrice, from order i on
RECURSIVE FillBuckets(_, _, _, _, _)
FillBuckets(bucketMap, orders, i, currentPrice, side) ==
    IF i > Len(orders) THEN bucketMap
    ELSE LET bucketIndex == BucketIndex(orders[i], currentPrice)
             at == MapFind(bucketMap, bucketIndex, 1)
             withKey == IF at = 0
                        THEN Append(bucketMap,
                                    [key |-> bucketIndex,
                                     bucket |-> NewBucket(currentPrice, bucketIndex, side)])
                        ELSE bucketMap
             pos == IF at = 0 THEN Len(withKey) ELSE at
         IN  FillBuckets([withKey EXCEPT ![pos].bucket = Accumulate(@, orders[i])],
                         orders, i + 1, currentPrice, side)

\* the comparator of the sort is positive: a is to come after b
ComesAfter(a, b, side) ==
    LET diff == IF side = "sell" THEN NumSub(a.priceLevel, b.priceLevel)
                ELSE NumSub(b.priceLevel, a.priceLevel)
    IN  ~IsNaN(diff) /\ NumSign(diff) > 0

\* Array.prototype.sort as a stable insertion sort; a comparator result of
\* NaN counts as 0
RECURSIVE InsertSorted(_, _, _)
InsertSorted(sorted, x, side) ==
    IF sorted = <<>> THEN <<x>>
    ELSE IF ComesAfter(sorted[Len(sorted)], x, side)
    THEN Append(InsertSorted(SubSeq(sorted, 1, Len(sorted) - 1), x, side),
                sorted[Len(sorted)])
    ELSE Append(sorted, x)

RECURSIVE SortBuckets(_, _, _)
SortBuckets(list, i, side) ==
    IF i = 0 THEN <<>>
    ELSE InsertSorted(SortBuckets(list, i - 1, side), list[i], side)

bucketByPrice(orders, currentPrice, side) ==
    LET bucketMap == FillBuckets(<<>>, orders, 1, currentPrice, side)
        values == [i \in 1..Len(bucketMap) |-> bucketMap[i].bucket]
    IN  SortBuckets(values, Len(values), side)

\* CumulativePass with the total written before the bucket's fee is added
RECURSIVE CumulativePassBefore(_, _, _)
CumulativePassBefore(buckets, i, cumulative) ==
    IF i > Len(buckets) THEN buckets
    ELSE CumulativePassBefore([buckets EXCEPT ![i].cumulativeFeesIfSweep = cumulative],
                              i + 1, NumAdd(cumulative, buckets[i].feePotentialUsd))

\* the cumulative loop of processOrders, from bucket i on
RECURSIVE CumulativePass(_, _, _)
CumulativePass(buckets, i, cumulative) ==
    IF i > Len(buckets) THEN buckets
    ELSE LET next == NumAdd(cumulative, buckets[i].feePotentialUsd)
         IN  CumulativePass([buckets EXCEPT ![i].cumulativeFeesIfSweep = next],
                            i + 1, next)

\* the tail of processOrders: bucket both sides, then the cumulative passes
FinishOrders(sellOrders, buyOrders, currentPriceUsd) ==
    [sellBuckets |-> CumulativePass(bucketByPrice(sellOrders, currentPriceUsd, "sell"),
                                    1, NumInt(0)),
     buyBuckets |-> CumulativePass(bucketByPrice(buyOrders, currentPriceUsd, "buy"),
                                   1, NumInt(0))]

(***************************************************************************)
(* processOrders up to its next await.  st holds the locals of one pass:   *)
(* i the order the loop is at, dec the decimalsCache, the two order lists, *)
(* and, while the pass awaits getMint, the mint asked for.  trace, calls    *)
(* and failed record what the pass did: the side pushed per order, the     *)
(* mints looked up in call order, the mints whose lookup failed.           *)
(***************************************************************************)
NewPass ==
    [i |-> 1, dec |-> <<>>, sellOrders |-> <<>>, buyOrders |-> <<>>,
     awaiting |-> FALSE, mint |-> 0, threw |-> FALSE,
     trace |-> <<>>, calls |-> <<>>, failed |-> {}]

PushOrder(st, order, targetTokenMint, currentPriceUsd) ==
    LET side == Classify(order.inputMint, order.outputMint, targetTokenMint)
        norm == NormalizedOrder(order, side, st.dec, currentPriceUsd)
    IN  [st EXCEPT !.i = @ + 1,
                   !.sellOrders = IF side = "sell" THEN Append(@, norm) ELSE @,
                   !.buyOrders = IF side = "buy" THEN Append(@, norm) ELSE @,
                   !.trace = Append(@, [publicKey |-> order.publicKey, side |-> side])]

RECURSIVE ProcessLoop(_, _, _, _)
ProcessLoop(st, orders, targetTokenMint, currentPriceUsd) ==
    IF st.threw \/ st.i > Len(orders) THEN [st EXCEPT !.awaiting = FALSE]
    ELSE LET order == orders[st.i]
         IN  IF order.inputMint \notin DOMAIN st.dec
             THEN [st EXCEPT !.awaiting = TRUE, !.mint = order.inputMint,
                             !.calls = Append(@, order.inputMint)]
             ELSE IF order.outputMint \notin DOMAIN st.dec
             THEN [st EXCEPT !.awaiting = TRUE, !.mint = order.outputMint,
                             !.calls = Append(@, order.outputMint)]
             ELSE ProcessLoop(PushOrder(st, order, targetTokenMint, currentPriceUsd),
                              orders, targetTokenMint, currentPriceUsd)

\* getMint resolved: decimalsCache.set(mint, mintInfo.decimals)
OnMintResolved(st, decimals) ==
    [st EXCEPT !.dec = MapSet(@, st.mint, decimals), !.awaiting = FALSE]

\* OnMintRejected without the catch block: the rejection leaves the pass
OnMintRejectedThrows(st) ==
    [st EXCEPT !.threw = TRUE, !.awaiting = FALSE, !.failed = @ \cup {st.mint}]

\* OnMintRejected with the default used but not put in the map
OnMintRejectedNoMemo(st) ==
    [st EXCEPT !.awaiting = FALSE, !.failed = @ \cup {st.mint}]

\* getMint rejected: the catch block, decimalsCache.set(mint, 9)
OnMintRejected(st) ==
    [st EXCEPT !.dec = MapSet(@, st.mint, DEFAULT_SPL_TOKEN_DECIMALS),
               !.awaiting = FALSE, !.failed = @ \cup {st.mint}]

(***************************************************************************)
(* The RPC node and the two scans.                                         *)
(***************************************************************************)
\* memcmp filter: the 32 bytes at offset equal the bytes of the mint
Memcmp(data, offset, mint) ==
    /\ Len(data) >= offset + PUBLIC_KEY_LENGTH
    /\ Subarray(data, offset, offset + PUBLIC_KEY_LENGTH) = KeyBytes(mint)

\* connection.getProgramAccounts with one memcmp filter, in key order
RECURSIVE getProgramAccounts(_, _, _, _)
getProgramAccounts(accounts, k, offset, mint) ==
    IF k \notin Keys THEN <<>>
    ELSE LET data == AccountData(accounts[k])
             rest == getProgramAccounts(accounts, k + 1, offset, mint)
         IN  IF Memcmp(data, offset, mint)
             THEN <<[pubkey |-> k, data |-> data]>> \o rest
             ELSE rest

\* accounts.map(account => parseOrderAccount(pubkey, data)): the outcomes
ParseAll(accounts) ==
    [i \in 1..Len(accounts) |-> parseOrderAccount(accounts[i].pubkey, accounts[i].data)]

fetchSellOrdersViaRpc(accounts, tokenMint) ==
    ParseAll(getProgramAccounts(accounts, 1, INPUT_MINT_OFFSET, tokenMint))

fetchBuyOrdersViaRpc(accounts, tokenMint) ==
    ParseAll(getProgramAccounts(accounts, 1, OUTPUT_MINT_OFFSET, tokenMint))

\* orderMap.set(order.publicKey, order) for each order in turn; a Map keeps
\* the place of a key's first insertion and the value of its last
RECURSIVE MergeInto(_, _, _)
MergeInto(orderMap, list, i) ==
    IF i > Len(list) THEN orderMap
    ELSE LET at == MapFind(orderMap, list[i].publicKey, 1)
         IN  MergeInto(IF at = 0
                       THEN Append(orderMap, [key |-> list[i].publicKey, order |-> list[i]])
                       ELSE [orderMap EXCEPT ![at].order = list[i]],
                       list, i + 1)

\* MergeOrders without the map: the two lists one after the other
MergeOrdersConcat(sellOrders, buyOrders) == sellOrders \o buyOrders

\* Array.from(orderMap.values()) for the map filled from [...sell, ...buy]
MergeOrders(sellOrders, buyOrders) ==
    LET orderMap == MergeInto(<<>>, sellOrders \o buyOrders, 1)
    IN  [i \in 1..Len(orderMap) |-> orderMap[i].order]

(***************************************************************************)
(* The snapshot slot and the clock.                                        *)
(***************************************************************************)
TickMs == CACHE_TTL \div 2

DateNow(t) == t * TickMs

NullCache == [set |-> FALSE, data |-> <<>>, timestamp |-> 0, tokenMint |-> 0]

\* CacheIsLive with the age in milliseconds held against the TTL in seconds
CacheIsLiveSeconds(cache, tokenMint, dateNow) ==
    /\ cache.set
    /\ cache.tokenMint = tokenMint
    /\ dateNow - cache.timestamp < CACHE_TTL \div 1000

\* StoreSnapshot that keeps what is stored when the fetch found no order
StoreSnapshotUnlessEmpty(cache, orders, dateNow, tokenMint) ==
    IF orders = <<>> THEN cache
    ELSE [set |-> TRUE, data |-> orders, timestamp |-> dateNow, tokenMint |-> tokenMint]

\* StoreSnapshot writing into the stored object: the order list and the
\* time are replaced, the mint of a stored snapshot stays
StoreSnapshotInPlace(cache, orders, dateNow, tokenMint) ==
    IF cache.set THEN [cache EXCEPT !.data = orders, !.timestamp = dateNow]
    ELSE [set |-> TRUE, data |-> orders, timestamp |-> dateNow, tokenMint |-> tokenMint]

\* StoreSnapshot adding the fetched orders to a snapshot stored for the mint
StoreSnapshotAppending(cache, orders, dateNow, tokenMint) ==
    [set |-> TRUE,
     data |-> IF cache.set /\ cache.tokenMint = tokenMint THEN cache.data \o orders
              ELSE orders,
     timestamp |-> dateNow, tokenMint |-> tokenMint]

\* ordersCache = { data: orders, timestamp: Date.now(), tokenMint }: the slot
\* is given a new object, whatever it held
StoreSnapshot(cache, orders, dateNow, tokenMint) ==
    [set |-> TRUE, data |-> orders, timestamp |-> dateNow, tokenMint |-> tokenMint]

\* CacheIsLive without the test of the mint
CacheIsLiveAnyMint(cache, tokenMint, dateNow) ==
    /\ cache.set
    /\ dateNow - cache.timestamp < CACHE_TTL

\* CacheIsLive with the mint test and the age test joined by "or"
CacheIsLiveEither(cache, tokenMint, dateNow) ==
    /\ cache.set
    /\ \/ cache.tokenMint = tokenMint
       \/ dateNow - cache.timestamp < CACHE_TTL

\* the condition of the "Check cache" if
CacheIsLive(cache, tokenMint, dateNow) ==
    /\ cache.set
    /\ cache.tokenMint = tokenMint
    /\ dateNow - cache.timestamp < CACHE_TTL

(***************************************************************************)
(* Responses.  NextResponse.json writes a number that is not finite as     *)
(* null.                                                                   *)
(***************************************************************************)
JsonNull == [k |-> "null", n |-> 0, d |-> 1, e |-> 0]

JsonNumber(x) == IF IsFinite(x) THEN x ELSE JsonNull

JsonBucket(b) ==
    [b EXCEPT !.priceLevel = JsonNumber(@), !.totalVolumeUsd = JsonNumber(@),
              !.feePotentialUsd = JsonNumber(@), !.cumulativeFeesIfSweep = JsonNumber(@)]

NoResponse == [status |-> 0, error |-> "", sellBuckets |-> <<>>, buyBuckets |-> <<>>]

ErrorResponse(status, error) ==
    [status |-> status, error |-> error, sellBuckets |-> <<>>, buyBuckets |-> <<>>]

SuccessResponse(result) ==
    [status |-> 200, error |-> "",
     sellBuckets |-> [i \in 1..Len(result.sellBuckets) |-> JsonBucket(result.sellBuckets[i])],
     buyBuckets |-> [i \in 1..Len(result.buyBuckets) |-> JsonBucket(result.buyBuckets[i])]]

\* the catch block of GET
FetchFailedResponse == ErrorResponse(500, "Failed to fetch orders")

(***************************************************************************)
(* The GET handler.  A request is idle, awaits the two scans ("scan"),     *)
(* awaits a getMint inside processOrders ("lookup"), or has answered       *)
(* ("done").  Besides the handler's locals a request keeps a record of     *)
(* what it was given and did: the two parameters, the number of            *)
(* getProgramAccounts calls it issued, the snapshot slot and the clock as  *)
(* they were when the handler ran its synchronous entry (snap, checkedAt), *)
(* whether it reached the cache check, and whether a scan failed.          *)
(***************************************************************************)
Reqs == {"r1"}

NoPriceParam == [present |-> FALSE, text |-> <<>>]

IdleReq ==
    [pc |-> "idle", tokenMint |-> 0, currentPriceUsd |-> NumInt(0), orders |-> <<>>,
     st |-> NewPass, resp |-> NoResponse,
     tokenParam |-> <<>>, priceParam |-> NoPriceParam, scans |-> 0,
     snap |-> NullCache, checkedAt |-> 0, checked |-> FALSE, scanFailed |-> FALSE]

TokenParams == {KeyBytes(m) : m \in Mints} \cup {<<1>>}

PriceTexts == {<<>>, <<"0">>, <<"a">>, <<"1">>, <<"-", "1">>, InfinityText}

PriceParams == {NoPriceParam} \cup {[present |-> TRUE, text |-> t] : t \in PriceTexts}

\* decimals of the mint accounts on chain
MintDecimalsOnChain(mint) == 5 + mint

Answer(q, resp) == [q EXCEPT !.pc = "done", !.resp = resp]

\* await processOrders(...) from the pass state st on, then the response
AfterPass(q, st) ==
    LET st2 == ProcessLoop(st, q.orders, q.tokenMint, q.currentPriceUsd)
    IN  IF st2.threw THEN Answer([q EXCEPT !.st = st2], FetchFailedResponse)
        ELSE IF st2.awaiting THEN [q EXCEPT !.pc = "lookup", !.st = st2]
        ELSE Answer([q EXCEPT !.st = st2],
                    SuccessResponse(FinishOrders(st2.sellOrders, st2.buyOrders,
                                                 q.currentPriceUsd)))

\* the price check of GET: the request is refused
PriceRefused(currentPriceUsd) == Falsy(currentPriceUsd)

\* GET from its entry to its first await on the network
GetEntry(q, tokenParam, priceParam, cache, t, envSet) ==
    LET given == [q EXCEPT !.tokenParam = tokenParam, !.priceParam = priceParam,
                           !.snap = cache, !.checkedAt = t]
        currentPriceUsd == parseFloat(PriceText(priceParam))
        tokenMint == PublicKeyOfBytes(tokenParam)
        valid == [given EXCEPT !.tokenMint = tokenMint,
                               !.currentPriceUsd = currentPriceUsd]
        atCheck == [valid EXCEPT !.checked = TRUE]
    IN  IF ~IsValidPublicKey(tokenParam)
        THEN Answer(given, ErrorResponse(400, "Invalid token mint address"))
        ELSE IF PriceRefused(currentPriceUsd)
        THEN Answer(given, ErrorResponse(400, "Price parameter required"))
        ELSE IF ~envSet
        THEN Answer(valid, FetchFailedResponse)
        ELSE IF CacheIsLive(cache, tokenMint, DateNow(t))
        THEN AfterPass([atCheck EXCEPT !.orders = cache.data], NewPass)
        ELSE [atCheck EXCEPT !.pc = "scan", !.scans = 2]

Start(r, tokenParam, priceParam) ==
    /\ req[r].pc = "idle"
    /\ req' = [req EXCEPT ![r] = GetEntry(@, tokenParam, priceParam, ordersCache, now, rpcUrl)]
    /\ UNCHANGED <<chain, rpcUrl, now, ordersCache, hpc, hin, hout, redis, redisTime, calls, page, fetches>>

AllOk(outcomes) == \A i \in 1..Len(outcomes) : outcomes[i].ok

OrdersOf(outcomes) == [i \in 1..Len(outcomes) |-> outcomes[i].order]

\* both scans resolved: decode, merge, store the snapshot, go on to processOrders
ScansResolve(r) ==
    /\ req[r].pc = "scan"
    /\ LET q == req[r]
           sell == fetchSellOrdersViaRpc(chain, q.tokenMint)
           buy == fetchBuyOrdersViaRpc(chain, q.tokenMint)
           orders == MergeOrders(OrdersOf(sell), OrdersOf(buy))
       IN  IF AllOk(sell) /\ AllOk(buy)
           THEN /\ ordersCache' = StoreSnapshot(ordersCache, orders, DateNow(now), q.tokenMint)
                /\ req' = [req EXCEPT ![r] = AfterPass([q EXCEPT !.orders = orders], NewPass)]
           ELSE /\ ordersCache' = ordersCache
                /\ req' = [req EXCEPT ![r] = Answer(q, FetchFailedResponse)]
    /\ UNCHANGED <<chain, rpcUrl, now, hpc, hin, hout, redis, redisTime, calls, page, fetches>>

\* OnScanRejected with the failure swallowed: an empty success
OnScanRejectedEmpty(q) ==
    Answer([q EXCEPT !.scanFailed = TRUE],
           SuccessResponse(FinishOrders(<<>>, <<>>, q.currentPriceUsd)))

\* Promise.all rejected: the catch block of GET
OnScanRejected(q) == Answer([q EXCEPT !.scanFailed = TRUE], FetchFailedResponse)

\* ScansReject with the slot emptied when a fetch fails
ScansRejectClearing(r, sellFailed, buyFailed) ==
    /\ req[r].pc = "scan"
    /\ sellFailed \/ buyFailed
    /\ req' = [req EXCEPT ![r] = OnScanRejected(@)]
    /\ ordersCache' = NullCache
    /\ UNCHANGED <<chain, rpcUrl, now, hpc, hin, hout, redis, redisTime, calls, page, fetches>>

\* at least one of the two scans failed (RPC unreachable, query error)
ScansReject(r, sellFailed, buyFailed) ==
    /\ req[r].pc = "scan"
    /\ sellFailed \/ buyFailed
    /\ req' = [req EXCEPT ![r] = OnScanRejected(@)]
    /\ UNCHANGED <<chain, rpcUrl, now, ordersCache, hpc, hin, hout, redis, redisTime, calls, page, fetches>>

\* the awaited getMint resolved: only a mint account on chain can resolve
LookupResolve(r) ==
    /\ req[r].pc = "lookup"
    /\ req[r].st.mint \in Mints
    /\ req' = [req EXCEPT ![r] =
                 AfterPass(@, OnMintResolved(@.st, MintDecimalsOnChain(@.st.mint)))]
    /\ UNCHANGED <<chain, rpcUrl, now, ordersCache, hpc, hin, hout, redis, redisTime, calls, page, fetches>>

\* the awaited getMint rejected (not a mint account, RPC error)
LookupReject(r) ==
    /\ req[r].pc = "lookup"
    /\ req' = [req EXCEPT ![r] = AfterPass(@, OnMintRejected(@.st))]
    /\ UNCHANGED <<chain, rpcUrl, now, ordersCache, hpc, hin, hout, redis, redisTime, calls, page, fetches>>

\* the response is sent; the slot serves the next request
Finish(r) ==
    /\ req[r].pc = "done"
    /\ req' = [req EXCEPT ![r] = IdleReq]
    /\ UNCHANGED <<chain, rpcUrl, now, ordersCache, hpc, hin, hout, redis, redisTime, calls, page, fetches>>

Tick ==
    /\ now < MaxTicks
    /\ now' = now + 1
    /\ UNCHANGED <<chain, rpcUrl, ordersCache, req, hpc, hin, hout, redis, redisTime, calls, page, fetches>>

ShortLen == INPUT_MINT_OFFSET + PUBLIC_KEY_LENGTH + U64_LENGTH

\* the accounts a key may hold: none, a full order account, or an account
\* of the program too short for the order layout
AccountChoices ==
    {NoAccount}
    \cup [inputMint : Mints, outputMint : Mints, makingAmount : {0, 1},
          takingAmount : {1}, len : {FullLen}]
    \cup [inputMint : Mints, outputMint : {0}, makingAmount : {0},
          takingAmount : {0}, len : {ShortLen}]

Init ==
    /\ chain \in [Keys -> AccountChoices]
    /\ rpcUrl \in BOOLEAN
    /\ now = 0
    /\ ordersCache = NullCache
    /\ req = [r \in Reqs |-> IdleReq]
    /\ hpc = "off"
    /\ hin = <<>>
    /\ hout = <<>>
    /\ ServicesOff

Next ==
    \/ \E r \in Reqs, tokenParam \in TokenParams, priceParam \in PriceParams :
          Start(r, tokenParam, priceParam)
    \/ \E r \in Reqs : ScansResolve(r)
    \/ \E r \in Reqs, sellFailed \in BOOLEAN, buyFailed \in BOOLEAN :
          ScansReject(r, sellFailed, buyFailed)
    \/ \E r \in Reqs : LookupResolve(r)
    \/ \E r \in Reqs : LookupReject(r)
    \/ \E r \in Reqs : Finish(r)
    \/ Tick

Spec == Init /\ [][Next]_vars

(***************************************************************************)
(* Decoder harness: parseOrderAccount applied to every prefix of every     *)
(* account image (and to images with trailing bytes).                      *)
(***************************************************************************)
ParseInputs ==
    [inputMint : Mints, outputMint : Mints, makingAmount : 0..MaxAmount,
     takingAmount : 0..MaxAmount, len : 0..(FullLen + MaxExtraBytes)]

\* the state of the handler's variables while a function harness runs
HandlerOff ==
    /\ chain = <<>>
    /\ rpcUrl = TRUE
    /\ now = 0
    /\ ordersCache = NullCache
    /\ req = <<>>

InitParse ==
    /\ HandlerOff
    /\ hpc = "ready"
    /\ \E publicKey \in Keys, a \in ParseInputs :
          hin = [publicKey |-> publicKey, data |-> AccountData(a)]
    /\ hout = <<>>
    /\ ServicesOff

ParseStep ==
    /\ hpc = "ready"
    /\ hpc' = "done"
    /\ hout' = parseOrderAccount(hin.publicKey, hin.data)
    /\ UNCHANGED <<chain, rpcUrl, now, ordersCache, req, hin, redis, redisTime, calls, page, fetches>>

NextParse == ParseStep

SpecParse == InitParse /\ [][NextParse]_vars

(***************************************************************************)
(* Merge harness: the dedup of GET applied to every pair of scan results   *)
(* over MaxKeys account keys.  A scan result lists each account once; the  *)
(* two scans are separate RPC calls, so the same key may carry different   *)
(* amounts in the two results.                                             *)
(***************************************************************************)
MaxKeys == 2

\* the sequences without repetition over a set of keys
RECURSIVE Arrangements(_)
Arrangements(keys) ==
    {<<>>} \cup UNION {{<<k>> \o rest : rest \in Arrangements(keys \ {k})} : k \in keys}

ScanOrders(ks, amounts) ==
    [i \in 1..Len(ks) |->
        [publicKey |-> ks[i], inputMint |-> 1, outputMint |-> 1,
         makingAmount |-> amounts[i], takingAmount |-> 1]]

InitMerge ==
    /\ HandlerOff
    /\ hpc = "ready"
    /\ \E sk \in Arrangements(1..MaxKeys), bk \in Arrangements(1..MaxKeys) :
          \E sa \in [1..Len(sk) -> 0..MaxAmount], ba \in [1..Len(bk) -> 0..MaxAmount] :
             hin = [sellOrders |-> ScanOrders(sk, sa), buyOrders |-> ScanOrders(bk, ba)]
    /\ hout = <<>>
    /\ ServicesOff

MergeStep ==
    /\ hpc = "ready"
    /\ hpc' = "done"
    /\ hout' = MergeOrders(hin.sellOrders, hin.buyOrders)
    /\ UNCHANGED <<chain, rpcUrl, now, ordersCache, req, hin, redis, redisTime, calls, page, fetches>>

NextMerge == MergeStep

SpecMerge == InitMerge /\ [][NextMerge]_vars

(***************************************************************************)
(* Bucketing harness: the tail of processOrders (bucketByPrice on both     *)
(* sides, then the cumulative passes) run twice in a row on every pair of  *)
(* normalized order lists of a few order kinds.  An order is given by its  *)
(* price and its normalized token amount; its volumeUsd is the amount      *)
(* times the current price, as processOrders computes it.  An order of     *)
(* price Infinity or NaN has a zero amount on the side its volume is taken *)
(* from.  The current prices are the numbers the price check lets through: *)
(* positive, negative, infinite.                                           *)
(***************************************************************************)
MaxOrders == 2

OrderKinds ==
    {[price |-> Canon(91, 1, -2), amount |-> NumInt(500)],
     [price |-> Canon(93, 1, -2), amount |-> NumInt(300)],
     [price |-> Canon(106, 1, -2), amount |-> NumInt(1000)],
     [price |-> NumInt(1), amount |-> NumInt(300)],
     [price |-> PosInf, amount |-> NumInt(0)],
     [price |-> NaN, amount |-> NumInt(0)]}

CurrentPrices == {NumInt(1), NumInt(-1), PosInf}

SeqsUpTo(S, n) == UNION {[1..k -> S] : k \in 0..n}

\* the {price, volumeUsd} list processOrders builds from orders of these kinds
PricedOrders(kinds, currentPriceUsd) ==
    [i \in 1..Len(kinds) |->
        [price |-> kinds[i].price,
         volumeUsd |-> NumMul(kinds[i].amount, currentPriceUsd)]]

\* ProcessTail with the order lists used up by the run
ProcessTailConsuming(mem) ==
    [mem EXCEPT !.result = FinishOrders(mem.sellOrders, mem.buyOrders, mem.currentPriceUsd),
                !.sellOrders = <<>>, !.buyOrders = <<>>]

\* the tail of processOrders on its locals: the two order lists are read,
\* the buckets are new objects
ProcessTail(mem) ==
    [mem EXCEPT !.result = FinishOrders(mem.sellOrders, mem.buyOrders, mem.currentPriceUsd)]

InitBucket ==
    /\ HandlerOff
    /\ hpc = "ready"
    /\ \E long \in SeqsUpTo(OrderKinds, MaxOrders),
          short \in SeqsUpTo(OrderKinds, MaxOrders - 1),
          swap \in BOOLEAN, c \in CurrentPrices :
          hin = [sellOrders |-> PricedOrders(IF swap THEN short ELSE long, c),
                 buyOrders |-> PricedOrders(IF swap THEN long ELSE short, c),
                 currentPriceUsd |-> c,
                 result |-> [sellBuckets |-> <<>>, buyBuckets |-> <<>>]]
    /\ hout = <<>>
    /\ ServicesOff

BucketStep ==
    /\ hpc \in {"ready", "once"}
    /\ hpc' = IF hpc = "ready" THEN "once" ELSE "twice"
    /\ hin' = ProcessTail(hin)
    /\ hout' = Append(hout, [given |-> hin, result |-> hin'.result])
    /\ UNCHANGED <<chain, rpcUrl, now, ordersCache, req, redis, redisTime, calls, page, fetches>>

NextBucket == BucketStep

SpecBucket == InitBucket /\ [][NextBucket]_vars

(***************************************************************************)
(* Concurrent requests: two requests in flight at once against one chain,  *)
(* each slot serving one request.  The handler runs from one await to the  *)
(* next without interruption, so the steps of the two requests interleave  *)
(* at the awaits.  Key 1 holds an order of mint 1 and key 2 an order of    *)
(* mint 2, so the scans for the two mints return different order sets.     *)
(* The slot starts empty or with the snapshot an earlier request stored    *)
(* for a mint at time 0.                                                   *)
(***************************************************************************)
RaceReqs == {"r1", "r2"}

RaceChain ==
    <<[inputMint |-> 1, outputMint |-> 1, makingAmount |-> 1, takingAmount |-> 1,
       len |-> FullLen],
      [inputMint |-> 2, outputMint |-> 2, makingAmount |-> 1, takingAmount |-> 1,
       len |-> FullLen]>>

RaceTokenParams == {KeyBytes(m) : m \in Mints}

RacePriceParams == {[present |-> TRUE, text |-> t] : t \in {<<"1">>, <<"2">>}}

\* the order list a fetch for the mint stores
FreshOrders(accounts, tokenMint) ==
    MergeOrders(OrdersOf(fetchSellOrdersViaRpc(accounts, tokenMint)),
                OrdersOf(fetchBuyOrdersViaRpc(accounts, tokenMint)))

InitRace ==
    /\ chain = RaceChain
    /\ rpcUrl = TRUE
    /\ now = 0
    /\ \/ ordersCache = NullCache
       \/ \E m \in Mints :
             ordersCache = StoreSnapshot(NullCache, FreshOrders(RaceChain, m), DateNow(0), m)
    /\ req = [r \in RaceReqs |-> IdleReq]
    /\ hpc = "off"
    /\ hin = <<>>
    /\ hout = <<>>
    /\ ServicesOff

NextRace ==
    \/ \E r \in RaceReqs, tokenParam \in RaceTokenParams, priceParam \in RacePriceParams :
          Start(r, tokenParam, priceParam)
    \/ \E r \in RaceReqs : ScansResolve(r)
    \/ \E r \in RaceReqs, sellFailed \in BOOLEAN, buyFailed \in BOOLEAN :
          ScansReject(r, sellFailed, buyFailed)
    \/ \E r \in RaceReqs : LookupResolve(r)
    \/ \E r \in RaceReqs : LookupReject(r)
    \/ Tick

SpecRace == InitRace /\ [][NextRace]_vars

(***************************************************************************)
(* Pass harness: processOrders called with every order list of up to       *)
(* MaxOrders orders over three mints, for target mint 1, among them orders *)
(* that name the target on neither side.  Mint 3 is no mint account: its   *)
(* lookup fails.  The pass is a request that starts at the call of         *)
(* processOrders and goes on through the lookups.                          *)
(***************************************************************************)
PassOrders(n) ==
    [1..n -> [inputMint : {1, 2, 3}, outputMint : {1, 2, 3},
              makingAmount : {0, 1}, takingAmount : {0, 1}]]

\* the orders with their account keys, in list order
Keyed(list) ==
    [i \in 1..Len(list) |->
        [publicKey |-> i, inputMint |-> list[i].inputMint,
         outputMint |-> list[i].outputMint, makingAmount |-> list[i].makingAmount,
         takingAmount |-> list[i].takingAmount]]

InitPass ==
    /\ chain = <<NoAccount, NoAccount>>
    /\ rpcUrl = TRUE
    /\ now = 0
    /\ ordersCache = NullCache
    /\ \E n \in 0..MaxOrders : \E list \in PassOrders(n) : \E price \in {1, 2} :
          req = [r \in Reqs |->
                    AfterPass([IdleReq EXCEPT !.tokenMint = 1,
                                              !.currentPriceUsd = NumInt(price),
                                              !.orders = Keyed(list)],
                              NewPass)]
    /\ hpc = "off"
    /\ hin = <<>>
    /\ hout = <<>>
    /\ ServicesOff

NextPass ==
    \/ \E r \in Reqs : LookupResolve(r)
    \/ \E r \in Reqs : LookupReject(r)

SpecPass == InitPass /\ [][NextPass]_vars

(***************************************************************************)
(* The Redis cache helper (lib/redis.ts) and two of its callers: the       *)
(* GitHub stars route and the Birdeye OHLCV fetch.  A JSON value is null,  *)
(* a number, or an array of numbers (a Birdeye item is held as its         *)
(* rawVolume); a JSON text is a sequence of characters.                    *)
(***************************************************************************)
JNull == [t |-> "null", n |-> 0, items |-> <<>>]

JNum(n) == [t |-> "num", n |-> n, items |-> <<>>]

JArr(items) == [t |-> "arr", n |-> 0, items |-> items]

NullText == <<"n", "u", "l", "l">>

DigitChars == <<"0", "1", "2", "3", "4", "5", "6", "7", "8", "9">>

\* the decimal text of a non-negative integer
RECURSIVE NumberText(_)
NumberText(n) ==
    IF n < 10 THEN <<DigitChars[n + 1]>>
    ELSE NumberText(n \div 10) \o <<DigitChars[(n % 10) + 1]>>

\* the texts of the items, with a comma between two
RECURSIVE ItemsText(_, _)
ItemsText(items, i) ==
    IF i > Len(items) THEN <<>>
    ELSE (IF i > 1 THEN <<",">> ELSE <<>>) \o NumberText(items[i]) \o ItemsText(items, i + 1)

\* JSON.stringify(data)
JSONstringify(v) ==
    CASE v.t = "null" -> NullText
      [] v.t = "num" -> NumberText(v.n)
      [] v.t = "arr" -> <<"[">> \o ItemsText(v.items, 1) \o <<"]">>

\* the text is one or more digits, without a leading zero before further digits
IsNumberText(text) ==
    /\ text # <<>>
    /\ LeadingDigits(text, 0, 0).count = Len(text)
    /\ Len(text) > 1 => text[1] # "0"

\* the texts between the commas of text, from position i on
RECURSIVE SplitItems(_, _, _)
SplitItems(text, i, current) ==
    IF i > Len(text) THEN <<current>>
    ELSE IF text[i] = "," THEN <<current>> \o SplitItems(text, i + 1, <<>>)
    ELSE SplitItems(text, i + 1, Append(current, text[i]))

\* JSON.parse(cached): the value, or a SyntaxError thrown
JSONparse(text) ==
    IF text = NullText THEN [threw |-> FALSE, value |-> JNull]
    ELSE IF IsNumberText(text)
    THEN [threw |-> FALSE, value |-> JNum(LeadingDigits(text, 0, 0).value)]
    ELSE IF Len(text) >= 2 /\ text[1] = "[" /\ text[Len(text)] = "]"
    THEN LET inner == SubSeq(text, 2, Len(text) - 1)
             parts == IF inner = <<>> THEN <<>> ELSE SplitItems(inner, 1, <<>>)
         IN  IF \A i \in 1..Len(parts) : IsNumberText(parts[i])
             THEN [threw |-> FALSE,
                   value |-> JArr([i \in 1..Len(parts) |->
                                      LeadingDigits(parts[i], 0, 0).value])]
             ELSE [threw |-> TRUE, value |-> JNull]
    ELSE [threw |-> TRUE, value |-> JNull]

\* the call sites: key, fetcher and ttlSeconds as passed to getCached
GithubSite == [key |-> "github:stars:claude-mem", fetcher |-> "github", ttlSeconds |-> 3600]

BirdeyeSite == [key |-> "birdeye:ohlcv", fetcher |-> "birdeye", ttlSeconds |-> 300]

CallSites == {GithubSite, BirdeyeSite}

\* what the upstream service does to the request of a fetcher: the request
\* fails (network error), or answers with a non-OK status, or answers OK
\* with a body
Threw == [status |-> "throws", has |-> FALSE, count |-> 0, items |-> <<>>]

NotOk == [status |-> "notOk", has |-> FALSE, count |-> 0, items |-> <<>>]

GithubBodies ==
    {[status |-> "ok", has |-> FALSE, count |-> 0, items |-> <<>>]}
        \cup {[status |-> "ok", has |-> TRUE, count |-> n, items |-> <<>>] : n \in {0, 12}}

BirdeyeBodies ==
    {[status |-> "ok", has |-> FALSE, count |-> 0, items |-> <<>>]}
        \cup {[status |-> "ok", has |-> TRUE, count |-> 0, items |-> items] :
                 items \in {<<>>, <<7>>, <<7, 30>>}}

Upstreams(fetcher) ==
    {Threw, NotOk} \cup (IF fetcher = "github" THEN GithubBodies ELSE BirdeyeBodies)

\* the fetcher of the stars route: null on a non-OK answer, else
\* data.stargazers_count ?? null
GithubFetcher(up) ==
    IF up.status = "throws" THEN [threw |-> TRUE, data |-> JNull]
    ELSE IF up.status = "notOk" THEN [threw |-> FALSE, data |-> JNull]
    ELSE [threw |-> FALSE, data |-> IF up.has THEN JNum(up.count) ELSE JNull]

\* the fetcher of fetchRawBirdeyeOHLCV: [] on a non-OK answer and when the
\* body has no items array, else the mapped items
BirdeyeFetcher(up) ==
    IF up.status = "throws" THEN [threw |-> TRUE, data |-> JNull]
    ELSE IF up.status = "notOk" THEN [threw |-> FALSE, data |-> JArr(<<>>)]
    ELSE [threw |-> FALSE, data |-> IF up.has THEN JArr(up.items) ELSE JArr(<<>>)]

RunFetcher(fetcher, up) ==
    IF fetcher = "github" THEN GithubFetcher(up) ELSE BirdeyeFetcher(up)

\* the Redis server: an entry with its text and the second it expires at
RedisTickSeconds == 1800

NoEntry == [set |-> FALSE, text |-> <<>>, expireAt |-> 0]

NilReply == [nil |-> TRUE, text |-> <<>>]

\* GET key: the text, or nil when the key is absent or has expired
RedisGet(store, key, seconds) ==
    IF store[key].set /\ seconds < store[key].expireAt
    THEN [nil |-> FALSE, text |-> store[key].text]
    ELSE NilReply

\* SET key text EX ttlSeconds
RedisSet(store, key, text, ttlSeconds, seconds) ==
    [store EXCEPT ![key] = [set |-> TRUE, text |-> text, expireAt |-> seconds + ttlSeconds]]

\* DEL key
RedisDel(store, key) == [store EXCEPT ![key] = NoEntry]

\* if (cached): a string is truthy unless it is empty
Truthy(cached) == ~cached.nil /\ cached.text # <<>>

CallIds == {"k1", "k2"}

Returned(value) == [kind |-> "returned", value |-> value]

\* the promise of getCached rejects: the error goes to the caller
Rejected == [kind |-> "rejected", value |-> JNull]

IdleCall ==
    [pc |-> "idle", key |-> "", fetcher |-> "", ttlSeconds |-> 0,
     cached |-> NilReply, data |-> JNull, result |-> [kind |-> "none", value |-> JNull],
     fetcherCalls |-> 0, upstream |-> <<>>, stored |-> FALSE,
     readFailed |-> FALSE, writeFailed |-> FALSE]

\* fetcher(): the fetcher is invoked and its upstream request goes out
InvokeFetcher(call) == [call EXCEPT !.fetcherCalls = @ + 1]

\* the catch block of getCached: return fetcher()
Fallback(call) == InvokeFetcher([call EXCEPT !.pc = "fallback"])

\* await redis.get(key) resolved, with a refresh from the fetcher on a hit
OnGetResolvedRefreshing(call, cached) ==
    InvokeFetcher([call EXCEPT !.cached = cached, !.pc = "fetch"])

\* await redis.get(key) resolved: a hit returns the parsed text, a miss
\* invokes the fetcher
OnGetResolved(call, cached) ==
    LET got == [call EXCEPT !.cached = cached]
    IN  IF Truthy(cached)
        THEN LET parsed == JSONparse(cached.text)
             IN  IF parsed.threw THEN Fallback(got)
                 ELSE [got EXCEPT !.pc = "done", !.result = Returned(parsed.value)]
        ELSE InvokeFetcher([got EXCEPT !.pc = "fetch"])

\* await redis.get(key) rejected
OnGetRejected(call) == Fallback([call EXCEPT !.readFailed = TRUE])

\* await fetcher() in the try block settled: the result goes on to the
\* write, a thrown error to the catch block
OnFetcherSettled(call, up) ==
    LET outcome == RunFetcher(call.fetcher, up)
        seen == [call EXCEPT !.upstream = Append(@, up.status)]
    IN  IF outcome.threw THEN Fallback(seen)
        ELSE [seen EXCEPT !.data = outcome.data, !.pc = "set"]

\* await redis.set(...) resolved: return data
OnSetResolved(call) ==
    [call EXCEPT !.pc = "done", !.stored = TRUE, !.result = Returned(call.data)]

\* await redis.set(...) rejected
OnSetRejected(call) == Fallback([call EXCEPT !.writeFailed = TRUE])

\* the promise of fetcher() returned from the catch block settled
OnFallbackSettled(call, up) ==
    LET outcome == RunFetcher(call.fetcher, up)
        seen == [call EXCEPT !.upstream = Append(@, up.status)]
    IN  IF outcome.threw THEN [seen EXCEPT !.pc = "done", !.result = Rejected]
        ELSE [seen EXCEPT !.pc = "done", !.result = Returned(outcome.data)]

\* getCached(key, fetcher, ttlSeconds) up to await redis.get(key)
Begin(c, site) ==
    /\ calls[c].pc = "idle"
    /\ calls' = [calls EXCEPT ![c] = [@ EXCEPT !.pc = "get", !.key = site.key,
                                               !.fetcher = site.fetcher,
                                               !.ttlSeconds = site.ttlSeconds]]
    /\ UNCHANGED <<chain, rpcUrl, now, ordersCache, req, hpc, hin, hout,
                   redis, redisTime, page, fetches>>

GetResolves(c) ==
    /\ calls[c].pc = "get"
    /\ calls' = [calls EXCEPT ![c] =
                    OnGetResolved(@, RedisGet(redis, @.key, redisTime * RedisTickSeconds))]
    /\ UNCHANGED <<chain, rpcUrl, now, ordersCache, req, hpc, hin, hout,
                   redis, redisTime, page, fetches>>

\* the Redis server is unreachable or answers with an error
GetRejects(c) ==
    /\ calls[c].pc = "get"
    /\ calls' = [calls EXCEPT ![c] = OnGetRejected(@)]
    /\ UNCHANGED <<chain, rpcUrl, now, ordersCache, req, hpc, hin, hout,
                   redis, redisTime, page, fetches>>

FetcherSettles(c, up) ==
    /\ calls[c].pc = "fetch"
    /\ up \in Upstreams(calls[c].fetcher)
    /\ calls' = [calls EXCEPT ![c] = OnFetcherSettled(@, up)]
    /\ UNCHANGED <<chain, rpcUrl, now, ordersCache, req, hpc, hin, hout,
                   redis, redisTime, page, fetches>>

SetResolves(c) ==
    /\ calls[c].pc = "set"
    /\ redis' = RedisSet(redis, calls[c].key, JSONstringify(calls[c].data),
                         calls[c].ttlSeconds, redisTime * RedisTickSeconds)
    /\ calls' = [calls EXCEPT ![c] = OnSetResolved(@)]
    /\ UNCHANGED <<chain, rpcUrl, now, ordersCache, req, hpc, hin, hout,
                   redisTime, page, fetches>>

SetRejects(c) ==
    /\ calls[c].pc = "set"
    /\ calls' = [calls EXCEPT ![c] = OnSetRejected(@)]
    /\ UNCHANGED <<chain, rpcUrl, now, ordersCache, req, hpc, hin, hout,
                   redis, redisTime, page, fetches>>

FallbackSettles(c, up) ==
    /\ calls[c].pc = "fallback"
    /\ up \in Upstreams(calls[c].fetcher)
    /\ calls' = [calls EXCEPT ![c] = OnFallbackSettled(@, up)]
    /\ UNCHANGED <<chain, rpcUrl, now, ordersCache, req, hpc, hin, hout,
                   redis, redisTime, page, fetches>>

\* DELETE of the stars route: redis.del(CACHE_KEY)
Delete ==
    /\ redis[GithubSite.key].set
    /\ redis' = RedisDel(redis, GithubSite.key)
    /\ UNCHANGED <<chain, rpcUrl, now, ordersCache, req, hpc, hin, hout,
                   redisTime, calls, page, fetches>>

RedisTick ==
    /\ redisTime < MaxRedisTicks
    /\ redisTime' = redisTime + 1
    /\ UNCHANGED <<chain, rpcUrl, now, ordersCache, req, hpc, hin, hout,
                   redis, calls, page, fetches>>

InitCached ==
    /\ HandlerOff
    /\ hpc = "off"
    /\ hin = <<>>
    /\ hout = <<>>
    /\ redis = [key \in {site.key : site \in CallSites} |-> NoEntry]
    /\ redisTime = 0
    /\ calls = [c \in CallIds |-> IdleCall]
    /\ page = <<>>
    /\ fetches = <<>>

NextCached ==
    \/ \E c \in CallIds, site \in CallSites : Begin(c, site)
    \/ \E c \in CallIds : GetResolves(c)
    \/ \E c \in CallIds : GetRejects(c)
    \/ \E c \in CallIds, up \in Upstreams("github") \cup Upstreams("birdeye") :
          FetcherSettles(c, up)
    \/ \E c \in CallIds : SetResolves(c)
    \/ \E c \in CallIds : SetRejects(c)
    \/ \E c \in CallIds, up \in Upstreams("github") \cup Upstreams("birdeye") :
          FallbackSettles(c, up)
    \/ Delete
    \/ RedisTick

SpecCached == InitCached /\ [][NextCached]_vars

(***************************************************************************)
(* The dashboard page (app/page.tsx): the effect of Home that fetches the  *)
(* limit-order buckets for (tokenCA, data.price) and polls every 60        *)
(* seconds.  The body the orders route answers for a request is held as    *)
(* the pair it was computed for.                                           *)
(***************************************************************************)
PageTokens == {"A", "B"}

\* data is null
NoData == 0

PagePrices == {NoData, 1, 2}

\* the body of a 200 answer of /api/orders/<tokenCA>?price=<price>
OrdersBody(tokenCA, price) ==
    [sellBuckets |-> <<[side |-> "sell", tokenCA |-> tokenCA, price |-> price]>>,
     buyBuckets |-> <<[side |-> "buy", tokenCA |-> tokenCA, price |-> price]>>]

\* fetchOrders up to await fetch(...), which applies the response whatever
\* was requested since
StartFetchOrders(p) ==
    [p EXCEPT !.limitOrderData = [@ EXCEPT !.loading = TRUE],
              !.sent = Append(@, [tokenCA |-> p.tokenCA, price |-> p.price])]

\* the effect on [tokenCA, data?.price]: the old interval is cleared; with
\* data and a token, fetchOrders is called and a new interval set
RunEffect(p) ==
    IF p.price = NoData \/ p.tokenCA = ""
    THEN [p EXCEPT !.interval = FALSE]
    ELSE StartFetchOrders([p EXCEPT !.interval = TRUE])

\* the response arrived OK: setLimitOrderData({ sellBuckets, buyBuckets, ... })
OnOrdersResponse(p, f) ==
    LET body == OrdersBody(f.tokenCA, f.price)
    IN  [p EXCEPT !.limitOrderData =
                      [sellBuckets |-> body.sellBuckets, buyBuckets |-> body.buyBuckets,
                       loading |-> FALSE, error |-> ""],
                  !.applied = @ \cup {f.seq}]

\* the fetch failed or answered non-OK: the catch of fetchOrders
OnOrdersFailure(p, f) ==
    [p EXCEPT !.limitOrderData = [@ EXCEPT !.loading = FALSE,
                                           !.error = "Failed to fetch orders"]]

\* setTokenCA / setData: a dependency of the effect changes
Change(tokenCA, price) ==
    /\ <<tokenCA, price>> # <<page.tokenCA, page.price>>
    /\ Len(page.sent) < MaxFetches
    /\ LET p == RunEffect([page EXCEPT !.tokenCA = tokenCA, !.price = price])
       IN  /\ page' = p
           /\ fetches' = IF Len(p.sent) > Len(page.sent)
                         THEN fetches \cup {[seq |-> Len(p.sent), tokenCA |-> p.tokenCA,
                                             price |-> p.price]} ELSE fetches
    /\ UNCHANGED <<chain, rpcUrl, now, ordersCache, req, hpc, hin, hout,
                   redis, redisTime, calls>>

\* the 60-second interval of the current effect fires
Poll ==
    /\ page.interval
    /\ Len(page.sent) < MaxFetches
    /\ LET p == StartFetchOrders(page)
       IN  /\ page' = p
           /\ fetches' = fetches \cup {[seq |-> Len(p.sent), tokenCA |-> p.tokenCA,
                                             price |-> p.price]}
    /\ UNCHANGED <<chain, rpcUrl, now, ordersCache, req, hpc, hin, hout,
                   redis, redisTime, calls>>

\* a request in flight is answered, in any order
Respond(f, ok) ==
    /\ f \in fetches
    /\ fetches' = fetches \ {f}
    /\ page' = IF ok THEN OnOrdersResponse(page, f) ELSE OnOrdersFailure(page, f)
    /\ UNCHANGED <<chain, rpcUrl, now, ordersCache, req, hpc, hin, hout,
                   redis, redisTime, calls>>

InitPage ==
    /\ HandlerOff
    /\ hpc = "off"
    /\ hin = <<>>
    /\ hout = <<>>
    /\ redis = <<>>
    /\ redisTime = 0
    /\ calls = <<>>
    /\ page = [tokenCA |-> "A", price |-> NoData, interval |-> FALSE,
               limitOrderData |-> [sellBuckets |-> <<>>, buyBuckets |-> <<>>,
                                  loading |-> FALSE, error |-> ""], sent |-> <<>>, applied |-> {}]
    /\ fetches = {}

NextPage ==
    \/ \E tokenCA \in PageTokens, price \in PagePrices : Change(tokenCA, price)
    \/ Poll
    \/ \E f \in fetches, ok \in BOOLEAN : Respond(f, ok)

SpecPage == InitPage /\ [][NextPage]_vars

(***************************************************************************)
(* Properties.                                                             *)
(***************************************************************************)
KeysOf(orders) == {orders[i].publicKey : i \in 1..Len(orders)}

RECURSIVE SumCounts(_, _)
SumCounts(buckets, i) ==
    IF i > Len(buckets) THEN 0 ELSE buckets[i].orderCount + SumCounts(buckets, i + 1)

\* the orders counted by the buckets of a response, both sides together
CountedOrders(resp) == SumCounts(resp.sellBuckets, 1) + SumCounts(resp.buyBuckets, 1)

Answered(q) == q.pc = "done"

Succeeded(q) == q.pc = "done" /\ q.resp.status = 200

\* at the cache check a snapshot was stored for the requested mint and was
\* younger than the TTL
SnapshotWasLive(q) ==
    /\ q.checked
    /\ q.snap.set
    /\ q.snap.tokenMint = q.tokenMint
    /\ DateNow(q.checkedAt) - q.snap.timestamp < CACHE_TTL

\* C1: a request that finds a snapshot stored for its mint with an age below
\* the 60-second TTL uses exactly the stored order list and issues neither
\* the input-mint scan nor the output-mint scan.
C1_LiveSnapshotServed ==
    \A r \in Reqs :
        SnapshotWasLive(req[r]) =>
            /\ req[r].orders = req[r].snap.data
            /\ req[r].scans = 0
            /\ req[r].pc # "scan"

\* C1 witness: a request was answered from a non-empty snapshot that was
\* one tick old at the check.
C1_Witness ==
    \E r \in Reqs :
        /\ SnapshotWasLive(req[r])
        /\ Succeeded(req[r])
        /\ req[r].snap.data # <<>>
        /\ DateNow(req[r].checkedAt) > req[r].snap.timestamp

\* C2: the merged order list holds each account key at most once (a key of
\* both scan results exactly once) and holds every key of either result.
C2_MergeDedups ==
    hpc = "done" =>
        /\ \A i, j \in 1..Len(hout) : hout[i].publicKey = hout[j].publicKey => i = j
        /\ KeysOf(hout) = KeysOf(hin.sellOrders) \cup KeysOf(hin.buyOrders)

\* C2 witness: a merge of two results that share a key, one of them holding
\* a key the other lacks.
C2_Witness ==
    /\ hpc = "done"
    /\ KeysOf(hin.sellOrders) \cap KeysOf(hin.buyOrders) # {}
    /\ KeysOf(hin.sellOrders) # KeysOf(hin.buyOrders)

\* the order a trace entry of a pass was pushed for
TracedOrder(q, i) == q.orders[i]

\* C3 as claimed: every processed order whose inputMint is the target mint is
\* a sell and every processed order whose outputMint is the target mint is a
\* buy, also when both mints are the target mint.
C3_SidesAsClaimed ==
    \A r \in Reqs : \A i \in 1..Len(req[r].st.trace) :
        /\ TracedOrder(req[r], i).inputMint = req[r].tokenMint
              => req[r].st.trace[i].side = "sell"
        /\ TracedOrder(req[r], i).outputMint = req[r].tokenMint
              => req[r].st.trace[i].side = "buy"

\* C3 amended: every processed order whose inputMint is the target mint is a
\* sell (also when its outputMint is the target mint too), and every
\* processed order whose outputMint is the target mint and whose inputMint is
\* not is a buy.
C3_SidesByFirstMatch ==
    \A r \in Reqs : \A i \in 1..Len(req[r].st.trace) :
        /\ req[r].st.trace[i].publicKey = TracedOrder(req[r], i).publicKey
        /\ TracedOrder(req[r], i).inputMint = req[r].tokenMint
              => req[r].st.trace[i].side = "sell"
        /\ (/\ TracedOrder(req[r], i).outputMint = req[r].tokenMint
            /\ TracedOrder(req[r], i).inputMint # req[r].tokenMint)
              => req[r].st.trace[i].side = "buy"

\* C3 witness: a request has answered whose pass pushed an order with both
\* mints the target mint and an order buying the target mint.
C3_Witness ==
    \E r \in Reqs : \E i, j \in 1..Len(req[r].st.trace) :
        /\ Succeeded(req[r])
        /\ TracedOrder(req[r], i).inputMint = req[r].tokenMint
        /\ TracedOrder(req[r], i).outputMint = req[r].tokenMint
        /\ TracedOrder(req[r], j).inputMint # req[r].tokenMint
        /\ TracedOrder(req[r], j).outputMint = req[r].tokenMint

\* the price text is a numeral of digits denoting a positive number
PositivePriceParam(priceParam) ==
    /\ priceParam.present
    /\ priceParam.text # <<>>
    /\ \A i \in 1..Len(priceParam.text) : DigitOf(priceParam.text[i]) >= 0
    /\ LeadingDigits(priceParam.text, 0, 0).value > 0

InvalidInput(q) ==
    \/ Len(q.tokenParam) # PUBLIC_KEY_LENGTH
    \/ ~PositivePriceParam(q.priceParam)

\* C4: a request whose mint is no valid address, or whose price is missing,
\* non-numeric, zero or negative, is answered with a request error before any
\* account scan or mint lookup is made, and the snapshot slot stays as it was.
C4_InvalidInputRejected ==
    \A r \in Reqs :
        (req[r].pc # "idle" /\ InvalidInput(req[r])) =>
            /\ req[r].pc = "done"
            /\ req[r].resp.status = 400
            /\ req[r].scans = 0
            /\ req[r].st.calls = <<>>
            /\ ordersCache = req[r].snap

\* C5: a request one of whose scans failed ends in an explicit error
\* response, never a success response with partial or empty buckets, and that
\* response differs from the success response of an empty result.
C5_ScanFailureIsError ==
    \A r \in Reqs :
        req[r].scanFailed =>
            /\ Answered(req[r])
            /\ req[r].resp.status = 500
            /\ req[r].resp.error # ""
            /\ req[r].resp # SuccessResponse(FinishOrders(<<>>, <<>>, req[r].currentPriceUsd))

\* C5 witness: a request whose scan failed has answered.
C5_Witness == \E r \in Reqs : req[r].scanFailed /\ Answered(req[r])

\* the orders of a request that name the mint as input or output
Referencing(q, mint) ==
    {i \in 1..Len(q.orders) : q.orders[i].inputMint = mint \/ q.orders[i].outputMint = mint}

Scanned(mint) ==
    {k \in Keys : \/ Memcmp(AccountData(chain[k]), INPUT_MINT_OFFSET, mint)
                  \/ Memcmp(AccountData(chain[k]), OUTPUT_MINT_OFFSET, mint)}

\* the account's data ends before the end of the taking-amount field
Undersized(data) == Len(data) < TAKING_AMOUNT_OFFSET + U64_LENGTH

\* C7: when one account of a scan result cannot be decoded (its buffer is
\* too short), that account alone is skipped: the request succeeds and its
\* buckets count exactly the other accounts of the scan results.
C7_UndecodableSkipped ==
    \A r \in Reqs :
        (Answered(req[r]) /\ req[r].checked /\ ~req[r].scanFailed) =>
            /\ req[r].resp.status = 200
            /\ CountedOrders(req[r].resp) =
                 Cardinality({k \in Scanned(req[r].tokenMint) :
                                 ~Undersized(AccountData(chain[k]))})

\* C8: parseOrderAccount on a buffer shorter than 240 bytes fails with a
\* decode error naming the account key; it returns no order.
C8_ShortBufferFails ==
    (hpc = "done" /\ Undersized(hin.data)) =>
        /\ ~hout.ok
        /\ hout.errorKey = hin.publicKey

ZeroAmount(order) == order.makingAmount = 0 \/ order.takingAmount = 0

\* C9: an order whose making or taking amount is zero is excluded from
\* bucketing: the buckets of a response count exactly the orders whose two
\* amounts are not zero.
C9_ZeroAmountExcluded ==
    \A r \in Reqs :
        Succeeded(req[r]) =>
            CountedOrders(req[r].resp) =
                Cardinality({i \in 1..Len(req[r].orders) : ~ZeroAmount(req[r].orders[i])})

NonDecreasing(buckets) ==
    \A i \in 1..(Len(buckets) - 1) :
        NumLeq(buckets[i].cumulativeFeesIfSweep, buckets[i + 1].cumulativeFeesIfSweep)

\* C10: in every response of a request that passed the input validation,
\* cumulativeFeesIfSweep is non-decreasing along sellBuckets and along
\* buyBuckets.
C10_CumulativeNonDecreasing ==
    \A r \in Reqs :
        Succeeded(req[r]) =>
            /\ NonDecreasing(req[r].resp.sellBuckets)
            /\ NonDecreasing(req[r].resp.buyBuckets)

\* the sides of a result of the bucketing harness
SidesOf(result) == {result.sellBuckets, result.buyBuckets}

\* the sum of feePotentialUsd over buckets 1..i
RECURSIVE SumFees(_, _)
SumFees(buckets, i) ==
    IF i = 0 THEN NumInt(0)
    ELSE NumAdd(SumFees(buckets, i - 1), buckets[i].feePotentialUsd)

\* C11: on each side the i-th bucket's cumulativeFeesIfSweep is the sum of
\* feePotentialUsd over buckets 1..i of that side alone (the total starts at
\* zero on each side), so the last bucket carries the side's total.
C11_CumulativeIsPrefixSum ==
    \A k \in 1..Len(hout) : \A buckets \in SidesOf(hout[k].result) :
        \A i \in 1..Len(buckets) :
            buckets[i].cumulativeFeesIfSweep = SumFees(buckets, i)

\* C11 witness: a run gave two sell buckets and a buy bucket, all with a fee
\* that is a positive number.
C11_Witness ==
    /\ hpc = "once"
    /\ Len(hout[1].result.sellBuckets) >= 2
    /\ Len(hout[1].result.buyBuckets) >= 1
    /\ \A buckets \in SidesOf(hout[1].result) : \A i \in 1..Len(buckets) :
          IsFinite(buckets[i].feePotentialUsd) /\ NumSign(buckets[i].feePotentialUsd) > 0

\* floor((price / currentPrice) / 0.05) of an order
ClaimKey(order, currentPrice) ==
    NumFloor(NumDiv(NumDiv(order.price, currentPrice), PRICE_BUCKET_PERCENTAGE))

\* the {price, volumeUsd} list a request's pass built for a side
SideOrders(q, side) == IF side = "sell" THEN q.st.sellOrders ELSE q.st.buyOrders

\* C12: in the list bucketByPrice returns for a side no two buckets have the
\* same priceLevel, and two orders are in the same bucket exactly when
\* floor((price / currentPrice) / 0.05) is the same for both.
C12_LevelsDistinctKeysDecide ==
    \A r \in Reqs : \A side \in {"sell", "buy"} :
        Succeeded(req[r]) =>
            LET orders == SideOrders(req[r], side)
                c == req[r].currentPriceUsd
                buckets == bucketByPrice(orders, c, side)
            IN  /\ \A i, j \in 1..Len(buckets) :
                      buckets[i].priceLevel = buckets[j].priceLevel => i = j
                /\ \A i, j \in 1..Len(orders) :
                      (BucketIndex(orders[i], c) = BucketIndex(orders[j], c))
                          <=> (ClaimKey(orders[i], c) = ClaimKey(orders[j], c))

\* the orders with the bucket key of a map entry (key = floor(...) * 0.05)
MembersOf(orders, currentPrice, key) ==
    {i \in 1..Len(orders) :
        NumMul(ClaimKey(orders[i], currentPrice), PRICE_BUCKET_PERCENTAGE) = key}

\* the sum of volumeUsd over the members among orders 1..i, in list order
RECURSIVE SumVolume(_, _, _)
SumVolume(orders, members, i) ==
    IF i = 0 THEN NumInt(0)
    ELSE IF i \in members
    THEN NumAdd(SumVolume(orders, members, i - 1), orders[i].volumeUsd)
    ELSE SumVolume(orders, members, i - 1)

\* a returned bucket as bucketByPrice left it, before the cumulative pass
BeforeCumulative(bucket) == [bucket EXCEPT !.cumulativeFeesIfSweep = NumInt(0)]

\* the bucket maps of the two sides for the input of a harness run, each
\* with the list returned for that side
MapsOf(run) ==
    {[orders |-> run.given.sellOrders,
      map |-> FillBuckets(<<>>, run.given.sellOrders, 1, run.given.currentPriceUsd, "sell"),
      returned |-> run.result.sellBuckets],
     [orders |-> run.given.buyOrders,
      map |-> FillBuckets(<<>>, run.given.buyOrders, 1, run.given.currentPriceUsd, "buy"),
      returned |-> run.result.buyBuckets]}

\* C13: the returned buckets are the buckets of the map, each once, and for
\* every one of them orderCount is the number of input orders with its key,
\* totalVolumeUsd the sum of their volumeUsd and feePotentialUsd is
\* totalVolumeUsd times 0.01.
C13_BucketAggregates ==
    \A k \in 1..Len(hout) : \A m \in MapsOf(hout[k]) :
        /\ Len(m.returned) = Len(m.map)
        /\ \A i \in 1..Len(m.returned) :
              Cardinality({j \in 1..Len(m.returned) :
                              BeforeCumulative(m.returned[j]) = BeforeCumulative(m.returned[i])})
                = Cardinality({j \in 1..Len(m.map) :
                                  m.map[j].bucket = BeforeCumulative(m.returned[i])})
        /\ \A j \in 1..Len(m.map) :
              LET members == MembersOf(m.orders, hout[k].given.currentPriceUsd, m.map[j].key)
                  volume == SumVolume(m.orders, members, Len(m.orders))
              IN  /\ m.map[j].bucket.orderCount = Cardinality(members)
                  /\ m.map[j].bucket.totalVolumeUsd = volume
                  /\ m.map[j].bucket.feePotentialUsd = NumMul(volume, Canon(1, 1, -2))

\* C13 witness: at current price 1 the orders of price 0.91 (volume 500) and
\* 0.93 (volume 300) were bucketed together: count 2, volume 800, fee 8.
C13_Witness ==
    /\ hpc = "once"
    /\ hin.currentPriceUsd = NumInt(1)
    /\ Len(hin.sellOrders) = 2
    /\ hin.sellOrders[1].price = Canon(91, 1, -2)
    /\ hin.sellOrders[2].price = Canon(93, 1, -2)
    /\ Len(hout[1].result.sellBuckets) = 1
    /\ hout[1].result.sellBuckets[1].orderCount = 2
    /\ hout[1].result.sellBuckets[1].totalVolumeUsd = NumInt(800)
    /\ hout[1].result.sellBuckets[1].feePotentialUsd = NumInt(8)

\* level is currentPrice times the largest multiple of 0.05 not above ratio
IsFloorLevel(level, currentPrice, ratio) ==
    LET multiple == NumDiv(level, currentPrice)
        steps == NumDiv(multiple, PRICE_BUCKET_PERCENTAGE)
    IN  /\ IsFinite(steps)
        /\ NumFloor(steps) = steps
        /\ NumLeq(multiple, ratio)
        /\ NumLt(ratio, NumAdd(multiple, PRICE_BUCKET_PERCENTAGE))

\* the bucket of the map that order i was added to
BucketHolding(orders, i, currentPrice, side) ==
    LET map == FillBuckets(<<>>, orders, 1, currentPrice, side)
    IN  map[MapFind(map, BucketIndex(orders[i], currentPrice), 1)].bucket

\* C14: an order of price p at current price c is in the bucket whose
\* priceLevel is c times the largest multiple of 0.05 not above p / c.
C14_BucketIsFloorOfRatio ==
    \A r \in Reqs : \A side \in {"sell", "buy"} :
        Succeeded(req[r]) =>
            LET orders == SideOrders(req[r], side)
                c == req[r].currentPriceUsd
            IN  \A i \in 1..Len(orders) :
                    IsFloorLevel(BucketHolding(orders, i, c, side).priceLevel, c,
                                 NumDiv(orders[i].price, c))

StrictlyAscending(buckets) ==
    \A i \in 1..(Len(buckets) - 1) : NumLt(buckets[i].priceLevel, buckets[i + 1].priceLevel)

StrictlyDescending(buckets) ==
    \A i \in 1..(Len(buckets) - 1) : NumLt(buckets[i + 1].priceLevel, buckets[i].priceLevel)

\* C15: the sell buckets returned are in strictly ascending priceLevel order
\* (the lowest first) and the buy buckets in strictly descending priceLevel
\* order (the highest first).
C15_BucketsOrdered ==
    \A r \in Reqs :
        Succeeded(req[r]) =>
            /\ StrictlyAscending(bucketByPrice(SideOrders(req[r], "sell"),
                                               req[r].currentPriceUsd, "sell"))
            /\ StrictlyDescending(bucketByPrice(SideOrders(req[r], "buy"),
                                                req[r].currentPriceUsd, "buy"))

NamesMint(acct, mint) ==
    \/ acct.len >= INPUT_MINT_OFFSET + PUBLIC_KEY_LENGTH /\ acct.inputMint = mint
    \/ acct.len >= OUTPUT_MINT_OFFSET + PUBLIC_KEY_LENGTH /\ acct.outputMint = mint

\* the request ran both scans and both succeeded without returning an account
ScannedNothing(q) ==
    /\ q.checked
    /\ q.scans = 2
    /\ q.pc # "scan"
    /\ ~q.scanFailed
    /\ \A k \in Keys : ~NamesMint(chain[k], q.tokenMint)

\* C17: when both scans succeed and return no account the request has
\* answered 200 with sellBuckets = [] and buyBuckets = [] and no error, and
\* an empty snapshot is stored for its mint.
C17_EmptyResultSucceeds ==
    \A r \in Reqs :
        ScannedNothing(req[r]) =>
            /\ req[r].pc = "done"
            /\ req[r].resp = [status |-> 200, error |-> "",
                              sellBuckets |-> <<>>, buyBuckets |-> <<>>]
            /\ ordersCache.set
            /\ ordersCache.tokenMint = req[r].tokenMint
            /\ ordersCache.data = <<>>

\* C17 witness: a request scanned a chain that holds orders, none of them
\* for its mint, and has answered.
C17_Witness ==
    \E r \in Reqs :
        /\ ScannedNothing(req[r])
        /\ Answered(req[r])
        /\ \E k \in Keys : chain[k] # NoAccount

\* at its cache check the request found the snapshot of another mint
FoundOtherMint(q) == q.checked /\ q.snap.set /\ q.snap.tokenMint # q.tokenMint

\* the step is request r's two scans resolving
ScansResolved(r) == req[r].pc = "scan" /\ req'[r].pc # "scan" /\ ~req'[r].scanFailed

\* C18: the slot holds at most one snapshot.  A fresh fetch that succeeds
\* leaves the slot holding the snapshot of its own mint and nothing of the
\* mint stored before, and a request that finds the snapshot of another mint
\* in the slot runs both scans and uses the fetched orders, whatever the age
\* of what is stored.
C18_SingleSlot ==
    /\ [](\A r \in RaceReqs :
             FoundOtherMint(req[r]) =>
                 /\ req[r].scans = 2
                 /\ (req[r].pc # "scan" /\ ~req[r].scanFailed)
                       => req[r].orders = FreshOrders(chain, req[r].tokenMint))
    /\ [][\A r \in RaceReqs :
             ScansResolved(r) =>
                 ordersCache' = [set |-> TRUE,
                                 data |-> FreshOrders(chain, req[r].tokenMint),
                                 timestamp |-> DateNow(now),
                                 tokenMint |-> req[r].tokenMint]]_vars

\* C18 witness: a request for mint B found the snapshot of mint A and
\* stored its own; a later request for A, made when A's snapshot would
\* still be younger than the TTL, found B's snapshot and fetched afresh.
C18_Witness ==
    \E ra, rb \in RaceReqs :
        /\ FoundOtherMint(req[rb])
        /\ req[rb].snap.tokenMint = req[ra].tokenMint
        /\ Succeeded(req[rb])
        /\ FoundOtherMint(req[ra])
        /\ req[ra].snap.tokenMint = req[rb].tokenMint
        /\ req[ra].snap.timestamp > req[rb].snap.timestamp
        /\ DateNow(req[ra].checkedAt) - req[rb].snap.timestamp < CACHE_TTL
        /\ Succeeded(req[ra])
        /\ req[ra].scans = 2

\* a snapshot is stored and is whole: the orders a fetch for its mint
\* returns, with a time that has come
WholeSnapshot(cache) ==
    /\ cache.set
    /\ cache.data = FreshOrders(chain, cache.tokenMint)
    /\ cache.timestamp <= DateNow(now)

\* the request took its orders from the snapshot it found and is still
\* working on them
ReadingSnapshot(q) == SnapshotWasLive(q) /\ q.pc = "lookup"

\* C19: under every interleaving the slot is empty or holds a whole
\* snapshot; it changes only in the step in which one request's scans
\* resolve, to mint, orders and time of that request together; and a request
\* that took the orders of a snapshot keeps these orders when another
\* request replaces the snapshot.
C19_SnapshotReplacedWhole ==
    /\ [](ordersCache = NullCache \/ WholeSnapshot(ordersCache))
    /\ [][ordersCache' # ordersCache =>
             \E r \in RaceReqs :
                 /\ ScansResolved(r)
                 /\ ordersCache'.set
                 /\ ordersCache'.tokenMint = req[r].tokenMint
                 /\ ordersCache'.data = req'[r].orders
                 /\ ordersCache'.timestamp = DateNow(now)]_vars
    /\ [][\A r \in RaceReqs :
             (ReadingSnapshot(req[r]) /\ req'[r].pc # "idle") =>
                 /\ req'[r].orders = req[r].snap.data
                 /\ req'[r].snap = req[r].snap]_vars

\* C19 witness: while a request works on the orders of the snapshot it
\* found, another request has replaced the slot with the snapshot of
\* another mint.
C19_Witness ==
    \E r \in RaceReqs :
        /\ ReadingSnapshot(req[r])
        /\ req[r].orders = req[r].snap.data
        /\ req[r].orders # <<>>
        /\ ordersCache.set
        /\ ordersCache.tokenMint # req[r].tokenMint

\* at its cache check the request found a snapshot of its mint that was as
\* old as the TTL or older
FoundStale(q) ==
    /\ q.checked
    /\ q.snap.set
    /\ q.snap.tokenMint = q.tokenMint
    /\ DateNow(q.checkedAt) - q.snap.timestamp >= CACHE_TTL

\* two requests for one mint that both found the same stale snapshot (so
\* neither saw the other's write) and have both answered
RacedRefresh(qa, qb) ==
    /\ FoundStale(qa)
    /\ FoundStale(qb)
    /\ qa.tokenMint = qb.tokenMint
    /\ qa.snap = qb.snap
    /\ Answered(qa)
    /\ Answered(qb)

\* the slot holds the order set one refresh for the mint stores
HoldsFresh(cache, mint) ==
    cache.set /\ cache.tokenMint = mint /\ cache.data = FreshOrders(chain, mint)

SameBuckets(qa, qb) ==
    /\ qa.resp.sellBuckets = qb.resp.sellBuckets
    /\ qa.resp.buyBuckets = qb.resp.buyBuckets

Resolved(q, i) ==
    /\ q.orders[i].inputMint \in DOMAIN q.st.dec
    /\ q.orders[i].outputMint \in DOMAIN q.st.dec

\* C21: all lookups of a pass are issued before any order is normalized, so
\* while a lookup is pending no order has been normalized yet and no order
\* whose two mints are resolved is waiting behind it.
C21_LookupsEager ==
    \A r \in Reqs :
        req[r].pc = "lookup" =>
            /\ req[r].st.trace = <<>>
            /\ \A i \in 1..Len(req[r].orders) :
                  Resolved(req[r], i) => i <= Len(req[r].st.trace)

\* the mints of the lookups a pass has made
Called(st) == {st.calls[i] : i \in 1..Len(st.calls)}

\* C22: within one pass the lookup is made at most once per mint, also for
\* a mint whose lookup failed, and the map of a pass holds only mints this
\* pass looked up: it starts empty in every pass.
C22_LookupOncePerMint ==
    \A r \in Reqs :
        /\ \A i, j \in 1..Len(req[r].st.calls) :
              req[r].st.calls[i] = req[r].st.calls[j] => i = j
        /\ DOMAIN req[r].st.dec \subseteq Called(req[r].st)
        /\ req[r].st.failed \subseteq Called(req[r].st)

\* C22 witness: a request served from the snapshot (so after the pass of an
\* earlier request) has answered; two of its orders name a mint whose
\* lookup failed, and its pass made one lookup.
C22_Witness ==
    \E r \in Reqs : \E mint \in req[r].st.failed :
        /\ Succeeded(req[r])
        /\ SnapshotWasLive(req[r])
        /\ Cardinality(Referencing(req[r], mint)) = 2
        /\ Len(req[r].st.calls) = 1

\* the order names the target mint on neither side
NamesNeither(order, target) == order.inputMint # target /\ order.outputMint # target

\* what processOrders pushes on a side's list for orders 1..i of the
\* list, given the decimals of the pass
RECURSIVE SideList(_, _, _)
SideList(q, side, i) ==
    IF i = 0 THEN <<>>
    ELSE LET o == q.orders[i]
             mine == IF side = "sell" THEN o.inputMint = q.tokenMint
                     ELSE o.inputMint # q.tokenMint /\ o.outputMint = q.tokenMint
         IN  IF mine
             THEN Append(SideList(q, side, i - 1),
                         NormalizedOrder(o, side, q.st.dec, q.currentPriceUsd))
             ELSE SideList(q, side, i - 1)

\* C25: an order that names the target mint on neither side is discarded:
\* the two lists that are bucketed hold the orders naming the target and no
\* other, so the response equals the one computed without such orders.
C25_NeitherSideDiscarded ==
    \A r \in Reqs :
        Answered(req[r]) =>
            /\ \A i \in 1..Len(req[r].orders) :
                  NamesNeither(req[r].orders[i], req[r].tokenMint)
                      => req[r].st.trace[i].side = "none"
            /\ req[r].st.sellOrders = SideList(req[r], "sell", Len(req[r].orders))
            /\ req[r].st.buyOrders = SideList(req[r], "buy", Len(req[r].orders))
            /\ req[r].resp = SuccessResponse(
                   FinishOrders(SideList(req[r], "sell", Len(req[r].orders)),
                                SideList(req[r], "buy", Len(req[r].orders)),
                                req[r].currentPriceUsd))

\* C25 witness: a pass has answered whose list holds an order naming the
\* target on neither side, followed by an order with a non-zero amount that
\* does name it.
C25_Witness ==
    \E r \in Reqs :
        /\ Answered(req[r])
        /\ Len(req[r].orders) = 2
        /\ NamesNeither(req[r].orders[1], req[r].tokenMint)
        /\ req[r].orders[1].makingAmount = 1
        /\ ~NamesNeither(req[r].orders[2], req[r].tokenMint)
        /\ req[r].orders[2].makingAmount = 1

EntersCheck(r) == req[r].pc = "idle" /\ req'[r].checked

\* C26: a request whose fresh fetch failed has left the snapshot slot as it
\* found it at its cache check (data, mint and timestamp), and a request
\* that afterwards enters for the mint of a snapshot still within its TTL
\* takes exactly the stored order list, without scanning or writing.
C26_FailedFetchKeepsSnapshot ==
    /\ [](\A r \in Reqs : req[r].scanFailed => ordersCache = req[r].snap)
    /\ [][\A r \in Reqs :
            (EntersCheck(r) /\ CacheIsLive(ordersCache, req'[r].tokenMint, DateNow(now)))
                => /\ req'[r].orders = ordersCache.data
                   /\ req'[r].pc # "scan"
                   /\ ordersCache' = ordersCache]_vars

\* C26 witness: a request for one mint has failed its fetch while the slot
\* held a snapshot of another mint, with orders, that is still within its TTL.
C26_Witness ==
    \E r \in Reqs :
        /\ Answered(req[r])
        /\ req[r].scanFailed
        /\ req[r].resp = FetchFailedResponse
        /\ req[r].snap.set
        /\ req[r].snap.data # <<>>
        /\ req[r].snap.tokenMint # req[r].tokenMint
        /\ CacheIsLive(ordersCache, req[r].snap.tokenMint, DateNow(now))

\* the request has its order list, from the slot or from its own fetch
HasOrders(q) == q.checked /\ ~q.scanFailed /\ q.pc \in {"lookup", "done"}

\* C27: with requests for different mints interleaved on the one slot, the
\* order list a request works on is the list of its own mint (every order
\* names that mint), and a successful response is computed from that list.
C27_OwnMintOnly ==
    \A r \in RaceReqs :
        /\ HasOrders(req[r]) =>
              /\ req[r].orders = FreshOrders(chain, req[r].tokenMint)
              /\ \A i \in 1..Len(req[r].orders) :
                    ~NamesNeither(req[r].orders[i], req[r].tokenMint)
        /\ Succeeded(req[r]) =>
              req[r].resp = SuccessResponse(
                  FinishOrders(SideList(req[r], "sell", Len(req[r].orders)),
                               SideList(req[r], "buy", Len(req[r].orders)),
                               req[r].currentPriceUsd))

\* C27 witness: one request is still working on the snapshot of its mint
\* while the other, for another mint, has fetched, replaced the slot and
\* answered.
C27_Witness ==
    \E r, s \in RaceReqs :
        /\ req[r].pc = "lookup"
        /\ SnapshotWasLive(req[r])
        /\ req[r].orders # <<>>
        /\ Succeeded(req[s])
        /\ req[s].tokenMint # req[r].tokenMint
        /\ ~SnapshotWasLive(req[s])
        /\ req[s].resp.sellBuckets # <<>>
        /\ ordersCache.tokenMint = req[s].tokenMint

\* C28: one call of getCached invokes its fetcher at most once, whatever
\* Redis and the upstream do.
C28_FetcherAtMostOnce ==
    \A c \in DOMAIN calls : calls[c].fetcherCalls <= 1

\* C24: a value is stored only after an upstream call that answered OK: a
\* call whose upstream answered non-OK or failed stores nothing.
C24_ErrorsNeverCached ==
    \A c \in DOMAIN calls : calls[c].stored => calls[c].upstream = <<"ok">>

\* at the read of a call the key holds a value that has not expired
LiveEntry(key) == redis[key].set /\ redisTime * RedisTickSeconds < redis[key].expireAt

\* the step is the end of await redis.get(key) of call c
Reads(c) == calls[c].pc = "get" /\ calls'[c].pc # "get"

\* the call returns the stored value and has not invoked its fetcher
ServedFromStore(c) ==
    /\ calls'[c].pc = "done"
    /\ calls'[c].fetcherCalls = 0
    /\ calls'[c].result.kind = "returned"
    /\ JSONstringify(calls'[c].result.value) = redis[calls[c].key].text
    /\ \A d \in DOMAIN calls :
          (/\ calls[d].stored
           /\ calls[d].key = calls[c].key
           /\ JSONstringify(calls[d].data) = redis[calls[c].key].text)
              => calls'[c].result.value = calls[d].data

\* C23 as stated: a call that reads while a stored value has not expired
\* returns it without invoking its fetcher; a call that reads when there is
\* none invokes its fetcher.
C23_ServedWithinTtl ==
    [][\A c \in DOMAIN calls :
          Reads(c) =>
              IF LiveEntry(calls[c].key) THEN ServedFromStore(c)
              ELSE calls'[c].fetcherCalls = 1]_vars

\* C23: a call whose Redis read succeeds while a stored value has not
\* expired returns that value without invoking its fetcher; a call whose
\* read succeeds and finds none, and a call whose read fails, invokes its
\* fetcher.
C23_ServedWhenReadSucceeds ==
    [][\A c \in DOMAIN calls :
          Reads(c) =>
              IF calls'[c].readFailed
              THEN calls'[c].fetcherCalls = 1 /\ calls'[c].pc = "fallback"
              ELSE IF LiveEntry(calls[c].key) THEN ServedFromStore(c)
              ELSE calls'[c].fetcherCalls = 1 /\ calls'[c].pc = "fetch"]_vars

\* C23 witness: a call has returned, without its fetcher, the array another
\* call fetched and stored under the same key.
C23_Witness ==
    \E c, d \in DOMAIN calls :
        /\ c # d
        /\ calls[d].stored
        /\ calls[d].data = JArr(<<7, 30>>)
        /\ calls[c].pc = "done"
        /\ calls[c].key = calls[d].key
        /\ ~calls[c].readFailed
        /\ Truthy(calls[c].cached)
        /\ calls[c].fetcherCalls = 0
        /\ calls[c].result = Returned(JArr(<<7, 30>>))

\* C30: once the response to the most recent orders request of the page has
\* been applied, limitOrderData holds the buckets of that request; a
\* response to an older request does not replace them.
C30_LatestBucketsKept ==
    (page # <<>> /\ Len(page.sent) \in page.applied) =>
        LET latest == page.sent[Len(page.sent)]
        IN  /\ page.limitOrderData.sellBuckets
                 = OrdersBody(latest.tokenCA, latest.price).sellBuckets
            /\ page.limitOrderData.buyBuckets
                 = OrdersBody(latest.tokenCA, latest.price).buyBuckets

====
